---- MODULE Spec2Model ----
(***************************************************************************)
(* Terminal snake game of PEICD100_CPP.cpp: the main loop (input poll,     *)
(* tick advance, render), reset_game, random_empty_cell and the two        *)
(* keyboard layers (_kbhit/_getch and the non-blocking read(2) pair).      *)
(***************************************************************************)
EXTENDS Integers, Sequences, FiniteSets, TLC

\* Grid size.  main fixes W = 30 and H = 20; the model runs the same code
\* over a grid of the same 3:2 shape that is small enough to enumerate
\* (reset_snake(30, 20) is evaluated separately where the starting cells of
\* the real grid are stated).
W == 3
H == (2 * W) \div 3
\* Most bytes the player has typed and the program has not yet read.
MaxKeys == 2

VARIABLES
    build,      \* which #ifdef branch was compiled: "win32" or "posix"
    stdin,      \* bytes typed and not yet read, oldest first
    snake,      \* std::deque<Pos>, front (head) first
    dir,        \* committed direction
    pending,    \* requested direction
    food,       \* Pos
    score,      \* int
    gameOver,   \* bool
    pc,         \* position of main: "input" (top of the loop body, the
                \* previous sleep_for elapsing), "update", "draw",
                \* "random_empty_cell" (inside its for(;;)), "done"
    exitCode    \* <<>> while main runs, <<v>> once it has returned v

vars == <<build, stdin, snake, dir, pending, food, score, gameOver, pc, exitCode>>
game == <<snake, dir, pending, food, score, gameOver>>

\* ---------------------------------------------------------------- types
Pos(px, py) == [x |-> px, y |-> py]

Dirs == {"Up", "Down", "Left", "Right"}

\* Key codes used by main (character literals and the console codes).
K_w == 119
K_W == 87
K_a == 97
K_A == 65
K_s == 115
K_S == 83
K_d == 100
K_D == 68
K_q == 113
K_Q == 81
K_r == 114
K_R == 82
K_ext == 224
K_up == 72
K_down == 80
K_left == 75
K_right == 77

\* Bytes the player types in the model: one key for each direction, a quit
\* key and a restart key, in both cases of letter.  (The console's arrow
\* sequences are decoded by Input but not typed.)
Keys == {K_w, K_S, K_a, K_D, K_Q, K_r}

\* ------------------------------------------------------- pure functions
\* is_opposite with the Up/Down pairs left out
is_opposite_horizontal(a, b) ==
    \/ (a = "Left" /\ b = "Right")
    \/ (a = "Right" /\ b = "Left")

\* is_opposite that compares for equality
is_opposite_same(a, b) == a = b

\* is_opposite with the Left/Right pairs left out
is_opposite_vertical(a, b) ==
    \/ (a = "Up" /\ b = "Down")
    \/ (a = "Down" /\ b = "Up")

is_opposite(a, b) ==
    \/ (a = "Up" /\ b = "Down")
    \/ (a = "Down" /\ b = "Up")
    \/ (a = "Left" /\ b = "Right")
    \/ (a = "Right" /\ b = "Left")

next_head(head, d) ==
    CASE d = "Up"    -> Pos(head.x, head.y - 1)
      [] d = "Down"  -> Pos(head.x, head.y + 1)
      [] d = "Left"  -> Pos(head.x - 1, head.y)
      [] d = "Right" -> Pos(head.x + 1, head.y)
      [] OTHER       -> head

contains(s, p) == \E i \in 1..Len(s) : s[i] = p

\* random_empty_cell without the rejection test
random_empty_cell_any(w, h, s) == [x : 0..(w - 1), y : 0..(h - 1)]

\* random_empty_cell with a fallback cell for the full board
random_empty_cell_fallback(w, h, s) ==
    IF \A p \in [x : 0..(w - 1), y : 0..(h - 1)] : contains(s, p)
    THEN {Pos(0, 0)}
    ELSE {p \in [x : 0..(w - 1), y : 0..(h - 1)] : ~contains(s, p)}

\* The values random_empty_cell can return: it draws uniformly from the
\* whole grid and returns the first draw that is not on the snake.
random_empty_cell(w, h, s) ==
    {p \in [x : 0..(w - 1), y : 0..(h - 1)] : ~contains(s, p)}

\* snake after the clear / push_front / push_back of reset_game
reset_snake(w, h) == <<Pos(w \div 2, h \div 2), Pos(w \div 2 - 1, h \div 2)>>

push_front(s, p) == <<p>> \o s
\* pop_back that removes the front element
pop_back_front(s) == SubSeq(s, 2, Len(s))
\* pop_back that removes nothing
pop_back_none(s) == s
pop_back(s) == SubSeq(s, 1, Len(s) - 1)

\* wall test without the tests on y
OutOfGrid_xonly(nh) == nh.x < 0 \/ nh.x >= W
\* wall test with the upper bounds off by one
OutOfGrid_late(nh) == nh.x < 0 \/ nh.x > W \/ nh.y < 0 \/ nh.y > H

\* wall test of the tick
OutOfGrid(nh) == nh.x < 0 \/ nh.x >= W \/ nh.y < 0 \/ nh.y >= H

\* self-collision loop started at the head itself (i = 0)
SelfCollision_fromhead(s, nh) == \E i \in 1..Len(s) : s[i] = nh
\* self-collision loop that stops one cell short of the tail
SelfCollision_short(s, nh) == \E i \in 2..(Len(s) - 1) : s[i] = nh
\* self-collision loop left out
SelfCollision_never(s, nh) == FALSE

\* the self-collision loop: i = 1 .. size-1 of the deque (2 .. Len here)
SelfCollision(s, nh) == \E i \in 2..Len(s) : s[i] = nh

\* direction committed at the start of a tick
CommitDir(d, p) == IF ~is_opposite(d, p) THEN p ELSE d

\* the four WASD ifs
KeyDir(k, p) ==
    LET p1 == IF k = K_w \/ k = K_W THEN "Up" ELSE p
        p2 == IF k = K_s \/ k = K_S THEN "Down" ELSE p1
        p3 == IF k = K_a \/ k = K_A THEN "Left" ELSE p2
        p4 == IF k = K_d \/ k = K_D THEN "Right" ELSE p3
    IN  p4

\* the four arrow ifs of the console build
ArrowDir(k2, p) ==
    LET p1 == IF k2 = K_up THEN "Up" ELSE p
        p2 == IF k2 = K_down THEN "Down" ELSE p1
        p3 == IF k2 = K_left THEN "Left" ELSE p2
        p4 == IF k2 = K_right THEN "Right" ELSE p3
    IN  p4

\* restart test without the gameOver conjunct
RestartAccepted_always(go, k) == k = K_r \/ k = K_R

\* the tests of lines 189 and 191
IsQuit(k) == k = K_q \/ k = K_Q
RestartAccepted(go, k) == go /\ (k = K_r \/ k = K_R)

\* ------------------------------------------------------ keyboard layer
\* key_hit: _kbhit() != 0, or read(STDIN, &c, 1) == 1
key_hit(b, in) == in # <<>>
\* the buffer after key_hit: read(2) takes the byte, _kbhit leaves it
AfterKeyHit(b, in) == IF b = "posix" /\ in # <<>> THEN Tail(in) ELSE in
\* get_key: the next byte, or -1 when read(2) finds none
get_key(in) == IF in # <<>> THEN Head(in) ELSE -1
AfterGetKey(in) == IF in # <<>> THEN Tail(in) ELSE in

\* the key that the input block of this iteration hands to the ifs
KeyOfIteration == get_key(AfterKeyHit(build, stdin))

\* ----------------------------------------------------------------- Init
\* main up to the loop: reset_game, clear_screen, draw
Init ==
    /\ build \in {"win32", "posix"}
    /\ stdin = <<>>
    /\ snake = reset_snake(W, H)
    /\ dir = "Right"
    /\ pending = "Right"
    /\ score = 0
    /\ gameOver = FALSE
    /\ food \in random_empty_cell(W, H, reset_snake(W, H))
    /\ pc = "input"
    /\ exitCode = <<>>

\* -------------------------------------------------------------- actions
\* The player types one byte; it waits in the terminal's buffer.  The
\* program takes bytes from the terminal only in the input block, so a byte
\* typed during the update or the draw has the effect of one typed in the
\* sleep that follows: the model lets the player type while main is in
\* sleep_for (pc = "input", the sleep elapsing before the next poll).
KeyPress ==
    /\ pc = "input"
    /\ Len(stdin) < MaxKeys
    /\ \E k \in Keys : stdin' = Append(stdin, k)
    /\ UNCHANGED <<build, game, pc, exitCode>>

\* reset_game without "score = 0"
reset_game_keepscore ==
    /\ snake' = reset_snake(W, H)
    /\ dir' = "Right"
    /\ pending' = "Right"
    /\ score' = score
    /\ gameOver' = FALSE
    /\ food' \in random_empty_cell(W, H, reset_snake(W, H))

\* reset_game with "pending = dir" executed before "dir = Dir::Right"
reset_game_stale ==
    /\ snake' = reset_snake(W, H)
    /\ dir' = "Right"
    /\ pending' = dir
    /\ score' = 0
    /\ gameOver' = FALSE
    /\ food' \in random_empty_cell(W, H, reset_snake(W, H))

\* reset_game as called from the loop, followed by clear_screen
reset_game ==
    /\ snake' = reset_snake(W, H)
    /\ dir' = "Right"
    /\ pending' = "Right"
    /\ score' = 0
    /\ gameOver' = FALSE
    /\ food' \in random_empty_cell(W, H, reset_snake(W, H))

\* input block whose WASD tests assign dir as well as pending
Input_direct ==
    /\ pc = "input"
    /\ IF ~key_hit(build, stdin)
       THEN /\ pc' = "update"
            /\ UNCHANGED <<build, stdin, game, exitCode>>
       ELSE LET in1 == AfterKeyHit(build, stdin)
                k == get_key(in1)
                in2 == AfterGetKey(in1)
                arrow == build = "win32" /\ k = K_ext
                in3 == IF arrow THEN Tail(in2) ELSE in2
                p1 == IF arrow THEN ArrowDir(Head(in2), pending) ELSE pending
                p2 == KeyDir(k, p1)
            IN  /\ arrow => in2 # <<>>
                /\ stdin' = in3
                /\ UNCHANGED build
                /\ IF IsQuit(k)
                   THEN /\ pending' = p2
                        /\ pc' = "done"
                        /\ exitCode' = <<0>>
                        /\ UNCHANGED <<snake, dir, food, score, gameOver>>
                   ELSE IF RestartAccepted(gameOver, k)
                   THEN /\ reset_game
                        /\ pc' = "update"
                        /\ UNCHANGED exitCode
                   ELSE /\ pending' = p2
                        /\ dir' = p2
                        /\ pc' = "update"
                        /\ UNCHANGED <<snake, food, score, gameOver, exitCode>>

\* The input block of one loop iteration (lines 170-195).
Input ==
    /\ pc = "input"
    /\ IF ~key_hit(build, stdin)
       THEN /\ pc' = "update"
            /\ UNCHANGED <<build, stdin, game, exitCode>>
       ELSE LET in1 == AfterKeyHit(build, stdin)
                k == get_key(in1)
                in2 == AfterGetKey(in1)
                arrow == build = "win32" /\ k = K_ext
                in3 == IF arrow THEN Tail(in2) ELSE in2
                p1 == IF arrow THEN ArrowDir(Head(in2), pending) ELSE pending
                p2 == KeyDir(k, p1)
            IN  /\ arrow => in2 # <<>>      \* _getch waits for the code
                /\ stdin' = in3
                /\ UNCHANGED build
                /\ IF IsQuit(k)
                   THEN /\ pending' = p2
                        /\ pc' = "done"
                        /\ exitCode' = <<0>>
                        /\ UNCHANGED <<snake, dir, food, score, gameOver>>
                   ELSE IF RestartAccepted(gameOver, k)
                   THEN /\ reset_game
                        /\ pc' = "update"
                        /\ UNCHANGED exitCode
                   ELSE /\ pending' = p2
                        /\ pc' = "update"
                        /\ UNCHANGED <<snake, dir, food, score, gameOver, exitCode>>

\* The body of "if (!gameOver)" (lines 199-224).
Advance ==
    LET d == CommitDir(dir, pending)
        nh == next_head(Head(snake), d)
        pushed == push_front(snake, nh)
    IN  /\ dir' = d
        /\ UNCHANGED <<build, stdin, pending, exitCode>>
        /\ IF OutOfGrid(nh)
           THEN /\ gameOver' = TRUE
                /\ pc' = "draw"
                /\ UNCHANGED <<snake, food, score>>
           ELSE IF nh = food
           THEN /\ score' = score + 1
                /\ snake' = pushed
                /\ IF random_empty_cell(W, H, pushed) = {}
                   THEN \* every draw is rejected: the call never returns
                        /\ pc' = "random_empty_cell"
                        /\ UNCHANGED <<food, gameOver>>
                   ELSE /\ food' \in random_empty_cell(W, H, pushed)
                        /\ gameOver' = (gameOver \/ SelfCollision(pushed, nh))
                        /\ pc' = "draw"
           ELSE /\ snake' = pop_back(pushed)
                /\ gameOver' = (gameOver \/ SelfCollision(pop_back(pushed), nh))
                /\ pc' = "draw"
                /\ UNCHANGED <<food, score>>

\* update block without the gameOver test
Tick_unguarded ==
    /\ pc = "update"
    /\ Advance

\* The update block of one loop iteration (lines 198-225).
Tick ==
    /\ pc = "update"
    /\ IF gameOver
       THEN /\ pc' = "draw"
            /\ UNCHANGED <<build, stdin, game, exitCode>>
       ELSE Advance

\* draw and the sleep that ends the iteration (lines 227-228).
Draw ==
    /\ pc = "draw"
    /\ pc' = "input"
    /\ UNCHANGED <<build, stdin, game, exitCode>>

Next == KeyPress \/ Input \/ Tick \/ Draw

Spec == Init /\ [][Next]_vars

\* ================================================================ claims
\* A step of the update block / of the input block of the loop.
TickStep == pc = "update" /\ pc' # "update"
InputStep == pc = "input" /\ pc' # "input"

\* The cell the head would enter: one cell from the head in the direction
\* the tick commits (pending, unless pending reverses dir).
Reverses(a, b) ==
    <<a, b>> \in {<<"Up", "Down">>, <<"Down", "Up">>,
                  <<"Left", "Right">>, <<"Right", "Left">>}
Committed == IF Reverses(dir, pending) THEN dir ELSE pending
Step(p, d) ==
    CASE d = "Up"    -> [x |-> p.x, y |-> p.y - 1]
      [] d = "Down"  -> [x |-> p.x, y |-> p.y + 1]
      [] d = "Left"  -> [x |-> p.x - 1, y |-> p.y]
      [] d = "Right" -> [x |-> p.x + 1, y |-> p.y]
NewHead == Step(snake[1], Committed)
InsideGrid(p) == p.x \in 0..(W - 1) /\ p.y \in 0..(H - 1)
OnSnake(p) == \E i \in 1..Len(snake) : snake[i] = p

\* C1: in every state between the steps of the loop (after reset_game and
\* after any keys and ticks, restarts included) the food is on no snake
\* cell.  The one position excluded is the inside of a random_empty_cell
\* call that never returns, where the relocation has not happened.
C1_FoodOffSnake == pc # "random_empty_cell" => ~OnSnake(food)
\* the food has been relocated by two eating ticks
C1_Witness == score >= 2 /\ pc = "draw" /\ ~gameOver /\ ~OnSnake(food)

\* C2: a tick run while gameOver is false leaves dir equal to the pending
\* direction it found, unless that direction is the reverse of dir, in
\* which case dir is unchanged.
C2_DirCommitted ==
    [][(TickStep /\ ~gameOver) =>
          /\ ~Reverses(dir, pending) => dir' = pending
          /\ Reverses(dir, pending) => dir' = dir]_vars
\* a tick has run with a reversing request pending: the request is still
\* pending and dir still points the other way
C2_Witness == pc = "draw" /\ ~gameOver /\ Reverses(dir, pending) /\ score >= 1

\* C3: a tick run while gameOver is false keeps the snake's length when the
\* new head is inside the grid and not on the food, and lengthens the snake
\* by one when the new head is the food cell.
C3_LengthRule ==
    [][(TickStep /\ ~gameOver) =>
          /\ (InsideGrid(NewHead) /\ NewHead # food) => Len(snake') = Len(snake)
          /\ NewHead = food => Len(snake') = Len(snake) + 1]_vars
\* the snake has eaten three times and moved on
C3_Witness == Len(snake) = 5 /\ pc = "draw" /\ snake[1] # food /\ ~gameOver

\* C4: a tick run while gameOver is false whose new head is outside the
\* grid sets gameOver and leaves snake, food and score as they were.
C4_WallRule ==
    [][(TickStep /\ ~gameOver /\ ~InsideGrid(NewHead)) =>
          /\ gameOver'
          /\ UNCHANGED <<snake, food, score>>]_vars
\* the game ended against the wall: the head still faces the outside and
\* no two cells of the snake coincide, so the snake did not hit itself
C4_Witness ==
    /\ gameOver /\ pc = "draw" /\ Len(snake) >= 3
    /\ ~InsideGrid(Step(snake[1], dir))
    /\ \A i, j \in 1..Len(snake) : i # j => snake[i] # snake[j]
\* C5: body cells are the cells behind the head (snake[1..] of the deque,
\* the cells draw prints as 'o'); body index 2 is the third of them, the
\* fourth cell of the snake.
\* As claimed: with a snake of length >= 4, a tick that moves the head into
\* the cell of body index 2 sets gameOver.
C5_AsClaimed ==
    [][(TickStep /\ ~gameOver /\ Len(snake) >= 4 /\ NewHead = snake[4]) =>
          gameOver']_vars
\* C5 as amended: with a snake of length >= 5, a tick that moves the head
\* into the cell of body index 2 sets gameOver; with length 4 that cell is
\* the tail, which the tick removes before the check.
C5_SelfCollision ==
    [][(TickStep /\ ~gameOver /\ Len(snake) >= 5 /\ NewHead = snake[4]) =>
          gameOver']_vars
\* the game ended with the head on the cell that held body index 2
C5_Witness ==
    gameOver /\ pc = "draw" /\ Len(snake) >= 5 /\ snake[1] = snake[5]

\* The third cell of the snake (index 2 of the deque) is two steps from
\* the head, so no tick can move the head into it.
HeadNeverEntersThirdCell ==
    Len(snake) >= 3 => \A d \in Dirs : Step(snake[1], d) # snake[3]

\* the key read by this iteration's input block is a Restart key
RestartRead ==
    pc = "input" /\ stdin # <<>> /\ KeyOfIteration \in {K_r, K_R}

\* C6: while gameOver is true, no step other than the input block reading
\* a Restart key changes snake, dir, food or score, and gameOver stays true.
C6_Frozen ==
    [][(gameOver /\ ~(RestartRead /\ InputStep)) =>
          /\ UNCHANGED <<snake, dir, food, score>>
          /\ gameOver']_vars
\* the game is over, a direction key was read afterwards (pending is
\* neither dir nor its reverse) and the update block has been passed
C6_Witness ==
    /\ gameOver /\ pc = "draw"
    /\ pending # dir /\ ~Reverses(dir, pending)

\* C7: the input block that reads a Restart key while gameOver is false
\* changes nothing of the game, as the input block that finds no key does;
\* and no input block run while gameOver is false resets the game.
C7_RestartIgnored ==
    [][(InputStep /\ ~gameOver) =>
          /\ UNCHANGED <<snake, dir, food, score, gameOver>>
          /\ RestartRead => (UNCHANGED pending /\ pc' = "update")]_vars
\* a Restart key is about to be read in the middle of a game
C7_Witness ==
    RestartRead /\ ~gameOver /\ score >= 1 /\ pending # "Right"

\* C8: when the key the player pressed next is 'q' or 'Q', the input block
\* that meets it ends the loop and main returns 0 (after which no step of
\* the loop runs).
C8_QuitTerminates ==
    [][(InputStep /\ stdin # <<>> /\ Head(stdin) \in {K_q, K_Q}) =>
          (pc' = "done" /\ exitCode' = <<0>>)]_vars

\* C9: reset_game leaves snake = [(W/2, H/2), (W/2 - 1, H/2)], dir = Right,
\* pending = Right, score = 0, gameOver = false and the food off the snake,
\* at start-up and at every restart, whatever the state before; for W = 30
\* and H = 20 the two cells are (15, 10) and (14, 10).
StartCells(w, h) ==
    <<[x |-> w \div 2, y |-> h \div 2], [x |-> w \div 2 - 1, y |-> h \div 2]>>
AfterReset(sn, d, p, f, sc, go) ==
    /\ sn = StartCells(W, H)
    /\ d = "Right" /\ p = "Right" /\ sc = 0 /\ go = FALSE
    /\ InsideGrid(f) /\ f # sn[1] /\ f # sn[2]
C9_ResetState ==
    /\ AfterReset(snake, dir, pending, food, score, gameOver)
    /\ reset_snake(30, 20) = <<[x |-> 15, y |-> 10], [x |-> 14, y |-> 10]>>
    /\ [][(RestartRead /\ gameOver /\ InputStep) =>
             AfterReset(snake', dir', pending', food', score', gameOver')]_vars
\* a Restart key is about to be read after a game that scored and ended
\* heading another way
C9_Witness ==
    RestartRead /\ gameOver /\ score >= 2 /\ dir # "Right" /\ pending # "Right"

\* C10: while gameOver is false no two elements of the snake are on the
\* same cell.
C10_NoOverlap ==
    ~gameOver => \A i, j \in 1..Len(snake) : i # j => snake[i] # snake[j]
\* a snake curled up so that its head is next to its own tail
C10_Witness ==
    /\ ~gameOver /\ pc = "update" /\ Len(snake) >= 4
    /\ \E d \in Dirs : Step(snake[1], d) = snake[Len(snake)]

\* the key read by this iteration's input block is a direction key
DirectionKeys == {K_w, K_W, K_a, K_A, K_s, K_S, K_d, K_D}
DirectionKeyRead ==
    pc = "input" /\ stdin # <<>> /\ KeyOfIteration \in DirectionKeys

\* C11: the input block that reads a direction key (w/a/s/d, either case)
\* leaves dir, snake, food, score and gameOver unchanged; dir is changed
\* only by the update block of a running game (the one other assignment to
\* dir is reset_game's, on an accepted restart).
C11_OnlyPending ==
    [][/\ (DirectionKeyRead /\ InputStep) =>
             UNCHANGED <<dir, snake, food, score, gameOver>>
       /\ dir' # dir =>
             \/ TickStep /\ ~gameOver
             \/ InputStep /\ RestartRead /\ gameOver]_vars
\* a direction key has just been read in a running game: the request is
\* a turn, and dir has not followed it yet
C11_Witness ==
    /\ pc = "update" /\ ~gameOver /\ score >= 1
    /\ pending # dir /\ ~Reverses(dir, pending)

\* the direction left in pending after every byte of a buffer has been
\* mapped in arrival order
RECURSIVE ApplyAll(_, _)
ApplyAll(in, p) ==
    IF in = <<>> THEN p
    ELSE ApplyAll(Tail(in),
                  CASE Head(in) \in {K_w, K_W} -> "Up"
                    [] Head(in) \in {K_s, K_S} -> "Down"
                    [] Head(in) \in {K_a, K_A} -> "Left"
                    [] Head(in) \in {K_d, K_D} -> "Right"
                    [] OTHER -> p)

\* C12: the input block reads and applies, in arrival order, every byte
\* that is pending when it polls: when the pending bytes are all direction
\* keys, the buffer is empty afterwards and pending is the direction of
\* the last of them.
C12_AllKeysRead ==
    [][(InputStep /\ \A i \in 1..Len(stdin) : stdin[i] \in DirectionKeys) =>
          /\ stdin' = <<>>
          /\ pending' = ApplyAll(stdin, pending)]_vars

\* cells of the grid that the snake with the new head pushed does not hold
FreeAfterPush ==
    {p \in [x : 0..(W - 1), y : 0..(H - 1)] : p # NewHead /\ ~OnSnake(p)}

\* C13: an eating tick that leaves no free cell enters random_empty_cell
\* and never leaves it (no draw, no later step of the loop); an eating
\* tick that leaves a free cell goes on to the draw with the food on a
\* free cell.  (The draws are taken as fair: a free cell is drawn at last.)
C13_NoSafeguard ==
    [][/\ (TickStep /\ ~gameOver /\ NewHead = food) =>
             IF FreeAfterPush = {}
             THEN pc' = "random_empty_cell"
             ELSE pc' = "draw" /\ food' \in FreeAfterPush
       /\ pc = "random_empty_cell" => pc' = "random_empty_cell"]_vars
\* the snake fills the grid and main is inside random_empty_cell
C13_Witness == pc = "random_empty_cell" /\ Len(snake) = W * H

\* C14: on a non-eating tick inside the grid, gameOver is set exactly when
\* the new head is on a cell that is still in the body once the tail has
\* been removed; moving into the cell the tail held before the tick does
\* not set it.
C14_FinalBody ==
    [][(TickStep /\ ~gameOver /\ InsideGrid(NewHead) /\ NewHead # food) =>
          /\ gameOver' <=> \E i \in 1..(Len(snake) - 1) : snake[i] = NewHead
          /\ NewHead = snake[Len(snake)] => ~gameOver']_vars
\* the tick about to run moves the head into the cell the tail holds
C14_Witness ==
    pc = "update" /\ ~gameOver /\ Len(snake) >= 4 /\ NewHead = snake[Len(snake)]

\* C15: gameOver becomes true only in the update block, and only when the
\* new head is outside the grid or on another cell of the snake as the
\* tick leaves it; gameOver becomes false only in the input block that
\* reads a Restart key.
C15_GameOverChanges ==
    [][/\ (~gameOver /\ gameOver') =>
             /\ TickStep
             /\ \/ ~InsideGrid(NewHead)
                \/ \E i \in 2..Len(snake') : snake'[i] = NewHead
       /\ (gameOver /\ ~gameOver') => (InputStep /\ RestartRead)]_vars
\* the game ended inside the grid, the head on another cell of the snake
C15_Witness ==
    /\ gameOver /\ pc = "draw" /\ InsideGrid(Step(snake[1], dir))
    /\ \E i \in 2..Len(snake) : snake[i] = snake[1]

\* C16: the snake has score + 2 cells (so score is never negative).
C16_LengthIsScorePlus2 == Len(snake) = score + 2 /\ score >= 0
\* the snake has eaten twice and the next poll finds a byte pending
C16_Witness ==
    score = 2 /\ Len(snake) = 4 /\ ~gameOver /\ pc = "input" /\ stdin # <<>>

\* C17: every snake cell and the food are inside the grid and the snake
\* has at least two cells.
C17_InsideGrid ==
    /\ Len(snake) >= 2
    /\ \A i \in 1..Len(snake) : InsideGrid(snake[i])
    /\ InsideGrid(food)
\* the game ended against the top or bottom wall with the head in a corner
C17_Witness ==
    /\ gameOver /\ dir \in {"Up", "Down"} /\ ~InsideGrid(Step(snake[1], dir))
    /\ snake[1].x \in {0, W - 1} /\ Len(snake) >= 3

\* C18: while gameOver is false, dir is the direction from the second cell
\* of the snake to its head, and no tick puts the head on the cell that
\* was the second cell, whatever direction is pending.
C18_NoReverse ==
    /\ [](~gameOver => snake[1] = Step(snake[2], dir))
    /\ [][(TickStep /\ ~gameOver) => snake'[1] # snake[2]]_vars
\* a tick is about to run with a reversing request pending
C18_Witness ==
    /\ pc = "update" /\ ~gameOver /\ Reverses(dir, pending)
    /\ Step(snake[1], pending) = snake[2]

\* C19: on the POSIX build, when one byte is pending at the poll, the key
\* handed to the tests of the input block is that byte.
C19_KeyHitKeepsByte ==
    (build = "posix" /\ pc = "input" /\ Len(stdin) = 1) =>
        KeyOfIteration = stdin[1]

\* C20: a tick that sets gameOver from a snake of at most 4 cells is a wall
\* collision; a tick that sets it inside the grid starts from 5 cells or
\* more.
C20_SelfCollisionLength ==
    [][(TickStep /\ ~gameOver /\ gameOver') =>
          /\ Len(snake) <= 4 => ~InsideGrid(NewHead)
          /\ InsideGrid(NewHead) => Len(snake) >= 5]_vars
\* the game ended by self-collision from exactly 5 cells
C20_Witness ==
    /\ gameOver /\ Len(snake) = 5 /\ snake[1] = snake[5]
    /\ InsideGrid(Step(snake[2], dir))

====
